---- MODULE Spec2Model ----
(***************************************************************************)
(* A state-machine model of bookreader.py (class BookReader): the playback *)
(* engine (play, pause, resume, stop, seek, skip and the position-tracking *)
(* thread of play_audio) and the conversion pipeline (select_file,         *)
(* download_url, prepare_audio_file, cancel).                              *)
(*                                                                         *)
(* Handlers that Tk runs on its main loop are one action each.  The        *)
(* threads the program starts (play_audio, _select_file_thread,            *)
(* _download_url_thread, _calculate_duration_thread) advance one read or   *)
(* write of a shared field per step, so that they interleave with the      *)
(* handlers and with each other the way the unsynchronised code does.      *)
(*                                                                         *)
(* The handlers are the program's operations: each may be called whenever  *)
(* the main loop is idle, and only its own tests decide what it does.  The *)
(* state of the buttons bound to them is not followed (the space bar and   *)
(* the window's close handler call them without a button), and             *)
(* Scale.set() is taken not to call on_scrollbar_move.                     *)
(*                                                                         *)
(* Time is in milliseconds on the device (pygame's get_pos) and in seconds *)
(* in self.position; Tick is one time.sleep(1.0) of wall-clock time.       *)
(***************************************************************************)
EXTENDS Integers, Sequences, FiniteSets, TLC

\* ---------------------------------------------------------------- bounds
\* Concurrent play_audio threads the model has room for.
MaxTrackers == 2
\* Largest position explored (the tracking loop's sum is cut off here).
MaxPos == 30
\* Longest track duration the skip commands are tried on (SkipSpec).
MaxDuration == 24
\* Length, in seconds, of the audio file the session plays.
AudioLen == 2
\* Commands the user gives in one run.
MaxCommands == 3
\* Concurrent conversion threads the model has room for.
MaxJobs == 2
\* Chunks smart_chunk_text cuts the text file into.
BookChunks == 2
\* _calculate_duration_thread threads that may be waiting to run.
MaxDurThreads == 2

\* ----------------------------------------------------- program constants
\* skip_backward / skip_forward: 10 seconds.
SkipSeconds == 10
\* time.sleep(1.0) in play_audio, in milliseconds of device time.
PollMs == 1000
\* The Scale's range while duration is None (to=100).
ScaleDefaultTo == 100

\* Python's None for current_file, and for duration.
NoFile == "None"
Unknown == -1

AudioFile == "song.mp3"
TextFile == "book.txt"
EmptyFile == "empty.txt"
UrlFile == "web.txt"
HomeDir == "home"
MusicDir == "music"
BooksDir == "books"

\* What the file dialog can return, and what a URL is downloaded to.
SelectInputs == {TextFile, EmptyFile, AudioFile}
Urls == {UrlFile}

\* Positions a configuration file left by an earlier run may hold.
SavedPositions == {0, 1}
\* Values the user drags the playback Scale to (within its current range).
SeekTargets == {0, 1, 3}

VARIABLES
    current_file,       \* self.current_file
    duration,           \* self.duration (Unknown is None)
    position,           \* self.position, seconds
    is_playing,         \* self.is_playing
    last_folder,        \* self.last_folder
    config,             \* the JSON object in ~/.bookreader_config.json
    scale_to,           \* the `to` of self.playback_scrollbar
    mixer,              \* pygame.mixer.music: [state, file, start, elapsed]
    busy_when_paused,   \* what get_busy() answers for a paused stream
    trk,                \* the play_audio threads: [pc, pos_ms]
    durq,               \* _calculate_duration_thread threads not yet run
    uiq,                \* window.after(0, _update_ui_after_duration) pending
    cmd,                \* history: the last playback command, the state it
                        \* found the engine in, the value a seek was given (the
                        \* position a skip or stop started from) and,
                        \* for seek, skip and stop, the play_audio threads
                        \* that had started their stream before the command
    is_processing,      \* self.is_processing
    cancel_processing,  \* self.cancel_processing
    job,                \* the _select_file_thread / _download_url_thread threads
    disk,               \* the files of self.temp_dir
    ncmd,               \* the number of commands given so far
    seg                 \* one call of smart_chunk_text: its arguments, its
                        \* locals start and chunks, and (history) the slice
                        \* bounds it cut at

jobVars == <<is_processing, cancel_processing, job, disk>>

vars == <<current_file, duration, position, is_playing, last_folder, config,
          scale_to, mixer, busy_when_paused, trk, durq, uiq, cmd,
          is_processing, cancel_processing, job, disk, ncmd, seg>>

Trackers == 1..MaxTrackers
Jobs == 1..MaxJobs

\* ------------------------------------------------------------ the device
\* pygame.mixer.music.  `start` is the offset given to play(start=...),
\* `elapsed` the milliseconds played since (get_pos), which pause freezes.
MixerIdle == [state |-> "idle", file |-> NoFile, start |-> 0, elapsed |-> 0]

MixerPlay(file, start) ==
    [state |-> "playing", file |-> file, start |-> start, elapsed |-> 0]

MixerPause(m) == IF m.state = "playing" THEN [m EXCEPT !.state = "paused"] ELSE m

MixerUnpause(m) == IF m.state = "paused" THEN [m EXCEPT !.state = "playing"] ELSE m

\* get_busy(): True while playing.  For a paused stream pygame 1 answers True
\* and pygame 2.0.1 and later answer False; the source pins neither.
GetBusy(m) == m.state = "playing" \/ (m.state = "paused" /\ busy_when_paused)

\* get_pos(): milliseconds played, -1 when nothing was started.
GetPos(m) == IF m.state = "idle" THEN -1 ELSE m.elapsed

\* The length in seconds of a file's audio.
TrackLen(file) == CASE file = AudioFile -> AudioLen
                    [] file \in {"book.mp3", "web.mp3"} -> 1
                    [] OTHER -> 0

\* The stream has played to the end of the file.
AtEnd(m) == m.start * 1000 + m.elapsed >= TrackLen(m.file) * 1000

\* ------------------------------------------------------------- helpers
SavedConfig(f, p, l) == [audio_file |-> f, position |-> p, last_folder |-> l]

\* get_audio_duration(): the cached duration, or 0 if not yet calculated.
get_audio_duration == IF duration # Unknown THEN duration ELSE 0

\* update_playback_scrollbar(): the Scale's range follows duration.
ScaleTo(d) == IF d # Unknown THEN d ELSE ScaleDefaultTo

Max(a, b) == IF a >= b THEN a ELSE b
Min(a, b) == IF a <= b THEN a ELSE b

IdleTracker == [pc |-> "idle", pos_ms |-> 0]

\* A thread's locals: i is the loop index (wav_files holds chunk_0.wav up to
\* chunk_<i-1>.wav during the synthesis loop), combined whether the
\* AudioSegment is non-empty, ret what prepare_audio_file returns.  History
\* only: cancelled (cancel() ran while the thread was converting), final
\* (the terminal status the thread published) and note (the last text put in
\* the status bar since the job started: "started" for "Loading file..." or
\* "Downloading...", "synth" and "comb" for the progress i/total,
\* "cancelling", or the terminal status).
IdleJob == [pc |-> "idle", kind |-> "none", path |-> NoFile, i |-> 0,
            combined |-> FALSE, ret |-> NoFile, cancelled |-> FALSE, final |-> "none",
            note |-> "none"]

HasFree(t) == \E k \in Trackers : t[k].pc = "idle"
FreeSlot(t) == CHOOSE k \in Trackers :
                  t[k].pc = "idle" /\ \A j \in Trackers : t[j].pc = "idle" => k <= j

\* threading.Thread(target=self.play_audio).start()
Spawn(t) == [t EXCEPT ![FreeSlot(t)] = [pc |-> "load", pos_ms |-> 0]]

\* History only: the play_audio threads that have started their stream.
Started(t) == {k \in Trackers : t[k].pc \notin {"idle", "load"}}

\* One more command of the MaxCommands the run has.
Command == ncmd < MaxCommands /\ ncmd' = ncmd + 1

\* play(): returns at once without a file, or while playing and busy;
\* otherwise starts a play_audio thread.
PlayWould(file, playing, m) == file # NoFile /\ ~(playing /\ GetBusy(m))

\* No call of smart_chunk_text is being followed.
SegIdle == [text |-> <<>>, base_size |-> 1, max_extra |-> 0, start |-> 0,
            chunks |-> <<>>, cuts |-> <<>>, returned |-> FALSE]

\* ------------------------------------------------------------------ Init
\* __init__: fields set, then load_config, then calculate_duration when a
\* file is bound.  The configuration file is absent, or names the audio file
\* and a saved position.
InitConfigs ==
    {SavedConfig(NoFile, 0, HomeDir)}
        \cup {SavedConfig(AudioFile, p, MusicDir) : p \in SavedPositions}

Init ==
    /\ \E c \in InitConfigs :
          /\ config = c
          /\ current_file = c.audio_file
          /\ position = c.position
          /\ last_folder = c.last_folder
    /\ duration = Unknown
    /\ is_playing = FALSE
    /\ scale_to = ScaleDefaultTo
    /\ mixer = MixerIdle
    /\ busy_when_paused \in BOOLEAN
    /\ trk = [k \in Trackers |-> IdleTracker]
    /\ durq = IF current_file # NoFile THEN 1 ELSE 0
    /\ uiq = FALSE
    /\ cmd = [name |-> "init", from |-> "Stopped", val |-> 0, stale |-> {}]
    /\ is_processing = FALSE
    /\ cancel_processing = FALSE
    /\ job = [j \in Jobs |-> IdleJob]
    /\ ncmd = 0
    /\ seg = SegIdle
    /\ disk = [clips |-> [i \in 0..(BookChunks - 1) |-> 0], outs |-> {}]

\* --------------------------------------------------- the playback handlers
\* The engine's state as the program tells it apart (toggle_playback, and
\* the tests of pause, resume and update_button_states): playing by the
\* flag, else paused while the device is busy, else stopped.
PlayState == IF is_playing THEN "Playing"
             ELSE IF GetBusy(mixer) THEN "Paused" ELSE "Stopped"

\* play()
Play ==
    /\ Command
    /\ PlayWould(current_file, is_playing, mixer)
    /\ HasFree(trk)
    /\ trk' = Spawn(trk)
    /\ cmd' = [name |-> "play", from |-> PlayState, val |-> 0, stale |-> {}]
    /\ UNCHANGED <<seg, current_file, duration, position, is_playing, last_folder,
                   config, scale_to, mixer, busy_when_paused, durq, uiq,
                   jobVars>>

\* pause()
Pause ==
    /\ Command
    /\ is_playing /\ GetBusy(mixer)
    /\ mixer' = MixerPause(mixer)
    /\ is_playing' = FALSE
    /\ cmd' = [name |-> "pause", from |-> PlayState, val |-> 0, stale |-> {}]
    /\ UNCHANGED <<seg, current_file, duration, position, last_folder, config,
                   scale_to, busy_when_paused, trk, durq, uiq,
                   jobVars>>

\* resume()
Resume ==
    /\ Command
    /\ ~is_playing /\ GetBusy(mixer)
    /\ mixer' = MixerUnpause(mixer)
    /\ is_playing' = TRUE
    /\ cmd' = [name |-> "resume", from |-> PlayState, val |-> 0, stale |-> {}]
    /\ UNCHANGED <<seg, current_file, duration, position, last_folder, config,
                   scale_to, busy_when_paused, trk, durq, uiq,
                   jobVars>>

\* stop()
StopMixerNever(m) == m

StopMixer(m) == IF GetBusy(m) THEN MixerIdle ELSE m

Stop ==
    /\ Command
    /\ mixer' = StopMixer(mixer)
    /\ is_playing' = FALSE
    /\ position' = 0
    /\ scale_to' = ScaleTo(duration)
    /\ config' = SavedConfig(current_file, 0, last_folder)
    /\ trk' = trk
    /\ cmd' = [name |-> "stop", from |-> PlayState, val |-> position, stale |-> Started(trk)]
    /\ UNCHANGED <<seg, current_file, duration, last_folder, busy_when_paused, durq, uiq,
                   jobVars>>

\* The tail seek and skip share: if self.is_playing: music.stop(); self.play()
\* (after the stop get_busy() is False, so play() returns early only without
\* a file), then save_config().
Restart(newpos) ==
    /\ IF is_playing
          THEN /\ mixer' = MixerIdle
               /\ IF PlayWould(current_file, is_playing, MixerIdle)
                     THEN /\ HasFree(trk)
                          /\ trk' = Spawn(trk)
                     ELSE trk' = trk
          ELSE /\ mixer' = mixer
               /\ trk' = trk
    /\ config' = SavedConfig(current_file, newpos, last_folder)

\* on_scrollbar_move(value): the Scale hands over a value of its range.
SeekTo(x) == x

Seek(x) ==
    /\ Command
    /\ x \in 0..scale_to
    /\ position' = SeekTo(x)
    /\ Restart(position')
    /\ cmd' = [name |-> "seek", from |-> PlayState, val |-> x, stale |-> Started(trk)]
    /\ UNCHANGED <<seg, current_file, duration, is_playing, last_folder, scale_to,
                   busy_when_paused, durq, uiq,
                   jobVars>>

\* skip_backward()
SkipBackTo(p) == Max(0, p - SkipSeconds)

SkipBackward ==
    /\ Command
    /\ current_file # NoFile
    /\ position' = SkipBackTo(position)
    /\ Restart(position')
    /\ scale_to' = ScaleTo(duration)
    /\ cmd' = [name |-> "skip_backward", from |-> PlayState, val |-> position, stale |-> Started(trk)]
    /\ UNCHANGED <<seg, current_file, duration, is_playing, last_folder,
                   busy_when_paused, durq, uiq,
                   jobVars>>

\* skip_forward()
SkipForwardToUnclamped(p, total) == p + SkipSeconds

SkipForwardTo(p, total) == IF total > 0 THEN Min(total, p + SkipSeconds)
                           ELSE p + SkipSeconds

SkipForward ==
    /\ Command
    /\ current_file # NoFile
    /\ position' = SkipForwardTo(position, get_audio_duration)
    /\ position' <= MaxPos
    /\ Restart(position')
    /\ scale_to' = ScaleTo(duration)
    /\ cmd' = [name |-> "skip_forward", from |-> PlayState, val |-> position, stale |-> Started(trk)]
    /\ UNCHANGED <<seg, current_file, duration, is_playing, last_folder,
                   busy_when_paused, durq, uiq,
                   jobVars>>

\* ------------------------------------------------ the play_audio thread
\* Lines 435-441: without a file the thread returns; otherwise load and
\* play(start=self.position).
TrkLoad(k) ==
    /\ trk[k].pc = "load"
    /\ IF current_file = NoFile
          THEN /\ trk' = [trk EXCEPT ![k] = IdleTracker]
               /\ mixer' = mixer
          ELSE /\ mixer' = MixerPlay(current_file, position)
               /\ trk' = [trk EXCEPT ![k].pc = "mark"]
    /\ UNCHANGED <<seg, current_file, duration, position, is_playing, last_folder,
                   config, scale_to, busy_when_paused, durq, uiq, cmd,
                   jobVars, ncmd>>

\* Line 448: self.is_playing = True
TrkMark(k) ==
    /\ trk[k].pc = "mark"
    /\ is_playing' = TRUE
    /\ trk' = [trk EXCEPT ![k].pc = "check"]
    /\ UNCHANGED <<seg, current_file, duration, position, last_folder, config,
                   scale_to, mixer, busy_when_paused, durq, uiq, cmd,
                   jobVars, ncmd>>

\* Line 449: while get_busy() and self.is_playing
LoopCond(m, playing) == GetBusy(m) /\ playing

TrkCheck(k) ==
    /\ trk[k].pc = "check"
    /\ trk' = [trk EXCEPT ![k].pc = IF LoopCond(mixer, is_playing) THEN "getpos"
                                    ELSE "exit1"]
    /\ UNCHANGED <<seg, current_file, duration, position, is_playing, last_folder,
                   config, scale_to, mixer, busy_when_paused, durq, uiq, cmd,
                   jobVars, ncmd>>

\* Lines 451-452: pos_ms = get_pos(); if pos_ms >= 0
TrkGetPos(k) ==
    /\ trk[k].pc = "getpos"
    /\ trk' = [trk EXCEPT ![k].pos_ms = Max(GetPos(mixer), 0),
                          ![k].pc = IF GetPos(mixer) >= 0 THEN "add" ELSE "sleep"]
    /\ UNCHANGED <<seg, current_file, duration, position, is_playing, last_folder,
                   config, scale_to, mixer, busy_when_paused, durq, uiq, cmd,
                   jobVars, ncmd>>

\* Lines 453-454: self.position += pos_ms / 1000.0, then the Scale follows.
Advance(p, pos_ms) == p + pos_ms \div 1000

TrkAdd(k) ==
    /\ trk[k].pc = "add"
    /\ position' = Advance(position, trk[k].pos_ms)
    /\ position' <= MaxPos
    /\ scale_to' = ScaleTo(duration)
    /\ trk' = [trk EXCEPT ![k].pc = "sleep"]
    /\ UNCHANGED <<seg, current_file, duration, is_playing, last_folder, config,
                   mixer, busy_when_paused, durq, uiq, cmd,
                   jobVars, ncmd>>

\* Line 460: self.is_playing = False
TrkExit1(k) ==
    /\ trk[k].pc = "exit1"
    /\ is_playing' = FALSE
    /\ trk' = [trk EXCEPT ![k].pc = "exit2"]
    /\ UNCHANGED <<seg, current_file, duration, position, last_folder, config,
                   scale_to, mixer, busy_when_paused, durq, uiq, cmd,
                   jobVars, ncmd>>

\* Line 461: self.position = 0, and the thread ends.
ExitPosition == 0

TrkExit2(k) ==
    /\ trk[k].pc = "exit2"
    /\ position' = ExitPosition
    /\ trk' = [trk EXCEPT ![k] = IdleTracker]
    /\ UNCHANGED <<seg, current_file, duration, is_playing, last_folder, config,
                   scale_to, mixer, busy_when_paused, durq, uiq, cmd,
                   jobVars, ncmd>>

\* ------------------------------------------------------- time and device
\* One time.sleep(1.0) of wall-clock time: a playing stream plays PollMs more
\* (one at its end stops first, see DeviceEnd) and the threads asleep in line
\* 457 wake.
Tick ==
    /\ ~(mixer.state = "playing" /\ AtEnd(mixer))
    /\ \/ mixer.state = "playing"
       \/ \E k \in Trackers : trk[k].pc = "sleep"
    /\ mixer' = IF mixer.state = "playing" /\ ~AtEnd(mixer)
                   THEN [mixer EXCEPT !.elapsed = @ + PollMs] ELSE mixer
    /\ trk' = [k \in Trackers |->
                  IF trk[k].pc = "sleep" THEN [trk[k] EXCEPT !.pc = "check"] ELSE trk[k]]
    /\ UNCHANGED <<seg, current_file, duration, position, is_playing, last_folder,
                   config, scale_to, busy_when_paused, durq, uiq, cmd,
                   jobVars, ncmd>>

\* The stream reaches the end of the file: the device is no longer busy.
DeviceEnd ==
    /\ mixer.state = "playing" /\ AtEnd(mixer)
    /\ mixer' = MixerIdle
    /\ UNCHANGED <<seg, current_file, duration, position, is_playing, last_folder,
                   config, scale_to, busy_when_paused, trk, durq, uiq, cmd,
                   jobVars, ncmd>>

\* ------------------------------------------------- the duration thread
\* _calculate_duration_thread: int(audio.info.length) of the file bound when
\* the thread runs, 0 when mutagen fails; then the UI update is queued.
ComputedDuration(file) == TrackLen(file)

DurationRun ==
    /\ durq > 0
    /\ durq' = durq - 1
    /\ \/ duration' = ComputedDuration(current_file)
       \/ duration' = 0
    /\ uiq' = TRUE
    /\ UNCHANGED <<seg, current_file, position, is_playing, last_folder, config,
                   scale_to, mixer, busy_when_paused, trk, cmd,
                   jobVars, ncmd>>

\* _update_ui_after_duration: update_playback_scrollbar()
DurationUi ==
    /\ uiq
    /\ uiq' = FALSE
    /\ scale_to' = ScaleTo(duration)
    /\ UNCHANGED <<seg, current_file, duration, position, is_playing, last_folder,
                   config, mixer, busy_when_paused, trk, durq, cmd,
                   jobVars, ncmd>>

\* ------------------------------------------------- the conversion threads
\* file_path.endswith('.txt')
IsText(path) == path \in {TextFile, EmptyFile, UrlFile}

\* len(smart_chunk_text(text)) of the file's stripped text; 0 for empty text.
ChunkCount(path) == CASE path = TextFile -> BookChunks
                      [] path = UrlFile -> 1
                      [] OTHER -> 0

\* self.temp_dir / f"{Path(file_path).stem}.mp3"
OutputMp3(path) == CASE path = TextFile -> "book.mp3"
                     [] path = UrlFile -> "web.mp3"
                     [] OTHER -> "empty.mp3"

\* str(Path(file_path).parent)
Folder(path) == IF path = AudioFile THEN MusicDir ELSE BooksDir

Ended(r) == r.pc \in {"idle", "dead"}
Running(j) == ~Ended(job[j])

JobFree(jb) == \E j \in Jobs : Ended(jb[j])
JobSlot(jb) == CHOOSE j \in Jobs : Ended(jb[j]) /\ \A k \in Jobs : Ended(jb[k]) => j <= k

StartJob(jb, kind, path, pc) ==
    [jb EXCEPT ![JobSlot(jb)] = [IdleJob EXCEPT !.pc = pc, !.kind = kind, !.path = path,
                                            !.note = "started"]]

\* select_file(): the dialog returned file_path.  Nothing in the handler (nor
\* in the update_button_states that is in effect, lines 473-479) looks at
\* is_processing.
SelectFile(path) ==
    /\ Command
    /\ JobFree(job)
    /\ last_folder' = Folder(path)
    /\ is_processing' = TRUE
    /\ cancel_processing' = FALSE
    /\ job' = StartJob(job, "select", path, "s_dur")
    /\ UNCHANGED <<seg, current_file, duration, position, is_playing, config, scale_to,
                   mixer, busy_when_paused, trk, durq, uiq, cmd, disk>>

\* download_url(): the entry holds a URL.
DownloadUrl(url) ==
    /\ Command
    /\ JobFree(job)
    /\ is_processing' = TRUE
    /\ cancel_processing' = FALSE
    /\ job' = StartJob(job, "download", url, "d_req")
    /\ UNCHANGED <<seg, current_file, duration, position, is_playing, last_folder, config,
                   scale_to, mixer, busy_when_paused, trk, durq, uiq, cmd, disk>>

\* cancel()
Converting(r) == IsText(r.path) /\ r.pc \in {"prep", "loop", "synth", "comb"}

Cancel ==
    /\ Command
    /\ cancel_processing' = TRUE
    /\ job' = [j \in Jobs |->
                  IF Running(j)
                     THEN [job[j] EXCEPT !.cancelled = @ \/ Converting(job[j]),
                                         !.note = "cancelling"]
                     ELSE job[j]]
    /\ UNCHANGED <<seg, current_file, duration, position, is_playing, last_folder, config,
                   scale_to, mixer, busy_when_paused, trk, durq, uiq, cmd,
                   is_processing, disk>>

\* An exception nobody catches ends the thread: _select_file_thread has no
\* handler, _download_url_thread still runs its finally clause.
Crash(j) ==
    /\ job' = [job EXCEPT ![j] = [IdleJob EXCEPT !.pc = "dead"]]
    /\ is_processing' = IF job[j].kind = "download" THEN FALSE ELSE is_processing

\* _download_url_thread, lines 288-289: requests.get / raise_for_status.
JRequest(j) ==
    /\ job[j].pc = "d_req"
    /\ \/ job' = [job EXCEPT ![j].pc = "d_write"]
       \/ job' = [job EXCEPT ![j].pc = "end", ![j].final = "failed",
                               ![j].note = "failed"]
    /\ UNCHANGED <<seg, current_file, duration, position, is_playing, last_folder, config,
                   scale_to, mixer, busy_when_paused, trk, durq, uiq, cmd,
                   is_processing, cancel_processing, disk, ncmd>>

\* Lines 295-299: the body is written to temp_dir (the loop breaks on cancel;
\* the downloaded text itself is not among the files the model follows).
JWrite(j) ==
    /\ job[j].pc = "d_write"
    /\ disk' = disk
    /\ job' = [job EXCEPT ![j].pc = "d_chk"]
    /\ UNCHANGED <<seg, current_file, duration, position, is_playing, last_folder, config,
                   scale_to, mixer, busy_when_paused, trk, durq, uiq, cmd,
                   is_processing, cancel_processing, ncmd>>

\* Lines 301 and 311-314.
JDownloaded(j) ==
    /\ job[j].pc = "d_chk"
    /\ IF ~cancel_processing
          THEN job' = [job EXCEPT ![j].pc = "s_dur"]
          ELSE job' = [job EXCEPT ![j].pc = "end", ![j].final = "cancelled",
                                  ![j].note = "cancelled"]
    /\ disk' = disk
    /\ UNCHANGED <<seg, current_file, duration, position, is_playing, last_folder, config,
                   scale_to, mixer, busy_when_paused, trk, durq, uiq, cmd,
                   is_processing, cancel_processing, ncmd>>

\* Lines 338 and 302: self.duration = None
JDuration(j) ==
    /\ job[j].pc = "s_dur"
    /\ duration' = Unknown
    /\ job' = [job EXCEPT ![j].pc = "prep"]
    /\ UNCHANGED <<seg, current_file, position, is_playing, last_folder, config,
                   scale_to, mixer, busy_when_paused, trk, durq, uiq, cmd,
                   is_processing, cancel_processing, disk, ncmd>>

\* prepare_audio_file, lines 376-391 and 429-431: empty text returns None, an
\* audio file is returned as it is, a text goes on to the chunk loop.
JPrep(j) ==
    /\ job[j].pc = "prep"
    /\ job' = [job EXCEPT ![j] =
                 IF ~IsText(job[j].path)
                    THEN [job[j] EXCEPT !.pc = "bind", !.ret = job[j].path]
                 ELSE IF ChunkCount(job[j].path) = 0
                    THEN [job[j] EXCEPT !.pc = "bind", !.ret = NoFile]
                 ELSE [job[j] EXCEPT !.pc = "loop", !.i = 0]]
    /\ UNCHANGED <<seg, current_file, duration, position, is_playing, last_folder, config,
                   scale_to, mixer, busy_when_paused, trk, durq, uiq, cmd,
                   is_processing, cancel_processing, disk, ncmd>>

\* os.remove of every path of `names` that exists.
RemoveClips(clips, names) == [c \in DOMAIN clips |-> IF c \in names THEN 0 ELSE clips[c]]

\* Lines 393-398: the head of one iteration of the synthesis loop (after the
\* last chunk the for loop ends without looking at the flag).
CancelSeen(flag) == flag

JLoop(j) ==
    /\ job[j].pc = "loop"
    /\ IF job[j].i >= ChunkCount(job[j].path)
          THEN /\ job' = [job EXCEPT ![j].pc = "comb", ![j].i = 0]
               /\ disk' = disk
          ELSE IF CancelSeen(cancel_processing)
          THEN /\ disk' = [disk EXCEPT !.clips = RemoveClips(@, 0..(job[j].i - 1))]
               /\ job' = [job EXCEPT ![j].pc = "bind", ![j].ret = NoFile]
          ELSE /\ job' = [job EXCEPT ![j].pc = "synth"]
               /\ disk' = disk
    /\ UNCHANGED <<seg, current_file, duration, position, is_playing, last_folder, config,
                   scale_to, mixer, busy_when_paused, trk, durq, uiq, cmd,
                   is_processing, cancel_processing, ncmd>>

\* Lines 399-403: chunk_<i>.wav is written and appended to wav_files.
JSynth(j) ==
    /\ job[j].pc = "synth"
    /\ disk' = [disk EXCEPT !.clips[job[j].i] = j]
    /\ job' = [job EXCEPT ![j].pc = "loop", ![j].i = @ + 1, ![j].note = "synth"]
    /\ UNCHANGED <<seg, current_file, duration, position, is_playing, last_folder, config,
                   scale_to, mixer, busy_when_paused, trk, durq, uiq, cmd,
                   is_processing, cancel_processing, ncmd>>

\* Line 400 raises: wave.open has created the file, nothing was appended.
JSynthFail(j) ==
    /\ job[j].pc = "synth"
    /\ disk' = [disk EXCEPT !.clips[job[j].i] = j]
    /\ Crash(j)
    /\ UNCHANGED <<seg, current_file, duration, position, is_playing, last_folder, config,
                   scale_to, mixer, busy_when_paused, trk, durq, uiq, cmd,
                   cancel_processing, ncmd>>

\* Lines 406-418: one clip is folded in (a clip of length 0 is skipped) and
\* its file removed.  A file that is gone makes from_wav raise, which is
\* caught, and then os.remove raise, which is not.
JCombine(j) ==
    /\ job[j].pc = "comb"
    /\ disk.clips[job[j].i] # 0
    /\ \E empty \in BOOLEAN :
          job' = [job EXCEPT ![j].combined = @ \/ ~empty,
                             ![j].i = @ + 1,
                             ![j].note = "comb",
                             ![j].pc = IF job[j].i + 1 >= ChunkCount(job[j].path)
                                          THEN "export" ELSE "comb"]
    /\ disk' = [disk EXCEPT !.clips[job[j].i] = 0]
    /\ UNCHANGED <<seg, current_file, duration, position, is_playing, last_folder, config,
                   scale_to, mixer, busy_when_paused, trk, durq, uiq, cmd,
                   is_processing, cancel_processing, ncmd>>

JCombineFail(j) ==
    /\ job[j].pc = "comb"
    /\ disk.clips[job[j].i] = 0
    /\ Crash(j)
    /\ UNCHANGED <<seg, current_file, duration, position, is_playing, last_folder, config,
                   scale_to, mixer, busy_when_paused, trk, durq, uiq, cmd,
                   cancel_processing, disk, ncmd>>

\* Lines 420-428: export when something was combined and the flag is clear;
\* an export that raises returns None.
ExportWanted(combined, flag) == combined /\ ~flag

JExport(j) ==
    /\ job[j].pc = "export"
    /\ IF ExportWanted(job[j].combined, cancel_processing)
          THEN \/ /\ disk' = [disk EXCEPT !.outs = @ \cup {OutputMp3(job[j].path)}]
                  /\ job' = [job EXCEPT ![j].pc = "bind", ![j].ret = OutputMp3(job[j].path)]
               \/ /\ disk' = disk
                  /\ job' = [job EXCEPT ![j].pc = "bind", ![j].ret = NoFile]
          ELSE /\ disk' = disk
               /\ job' = [job EXCEPT ![j].pc = "bind", ![j].ret = NoFile]
    /\ UNCHANGED <<seg, current_file, duration, position, is_playing, last_folder, config,
                   scale_to, mixer, busy_when_paused, trk, durq, uiq, cmd,
                   is_processing, cancel_processing, ncmd>>

\* Lines 339 and 303: self.current_file = <what prepare_audio_file returned>
JBind(j) ==
    /\ job[j].pc = "bind"
    /\ current_file' = job[j].ret
    /\ job' = [job EXCEPT ![j].pc = "fin"]
    /\ UNCHANGED <<seg, duration, position, is_playing, last_folder, config,
                   scale_to, mixer, busy_when_paused, trk, durq, uiq, cmd,
                   is_processing, cancel_processing, disk, ncmd>>

\* Lines 340-348 (select) and 304-310 (download): the track is taken when
\* self.current_file is set (and, for select only, the flag is clear).
Accepts(kind, flag, file) ==
    IF kind = "select" THEN ~flag /\ file # NoFile ELSE file # NoFile

JFinish(j) ==
    /\ job[j].pc = "fin"
    /\ IF Accepts(job[j].kind, cancel_processing, current_file)
          THEN /\ position' = 0
               /\ IF duration = Unknown
                     THEN durq < MaxDurThreads /\ durq' = durq + 1
                     ELSE durq' = durq
               /\ config' = SavedConfig(current_file, 0, last_folder)
               /\ job' = [job EXCEPT ![j].pc = "end", ![j].final = "completed",
                                     ![j].note = "completed"]
          ELSE /\ job' = [job EXCEPT ![j].pc = "end",
                                     ![j].final = IF job[j].kind = "select"
                                                     THEN "cancelled" ELSE "none",
                                     ![j].note = IF job[j].kind = "select"
                                                    THEN "cancelled" ELSE @]
               /\ UNCHANGED <<position, durq, config>>
    /\ UNCHANGED <<seg, current_file, duration, is_playing, last_folder,
                   scale_to, mixer, busy_when_paused, trk, uiq, cmd,
                   is_processing, cancel_processing, disk, ncmd>>

\* Lines 349 and 319: self.is_processing = False, and the thread is over.
JEnd(j) ==
    /\ job[j].pc = "end"
    /\ is_processing' = FALSE
    /\ job' = [job EXCEPT ![j] = IdleJob]
    /\ UNCHANGED <<seg, current_file, duration, position, is_playing, last_folder, config,
                   scale_to, mixer, busy_when_paused, trk, durq, uiq, cmd,
                   cancel_processing, disk, ncmd>>

\* ------------------------------------------------------------------ Next
PlayNext ==
    \/ Play
    \/ Pause
    \/ Resume
    \/ Stop
    \/ \E x \in SeekTargets : Seek(x)
    \/ SkipBackward
    \/ SkipForward
    \/ \E k \in Trackers : TrkLoad(k)
    \/ \E k \in Trackers : TrkMark(k)
    \/ \E k \in Trackers : TrkCheck(k)
    \/ \E k \in Trackers : TrkGetPos(k)
    \/ \E k \in Trackers : TrkAdd(k)
    \/ \E k \in Trackers : TrkExit1(k)
    \/ \E k \in Trackers : TrkExit2(k)
    \/ Tick
    \/ DeviceEnd
    \/ DurationRun
    \/ DurationUi

JobNext ==
    \/ \E path \in SelectInputs : SelectFile(path)
    \/ \E url \in Urls : DownloadUrl(url)
    \/ Cancel
    \/ \E j \in Jobs : JRequest(j)
    \/ \E j \in Jobs : JWrite(j)
    \/ \E j \in Jobs : JDownloaded(j)
    \/ \E j \in Jobs : JDuration(j)
    \/ \E j \in Jobs : JPrep(j)
    \/ \E j \in Jobs : JLoop(j)
    \/ \E j \in Jobs : JSynth(j)
    \/ \E j \in Jobs : JSynthFail(j)
    \/ \E j \in Jobs : JCombine(j)
    \/ \E j \in Jobs : JCombineFail(j)
    \/ \E j \in Jobs : JExport(j)
    \/ \E j \in Jobs : JBind(j)
    \/ \E j \in Jobs : JFinish(j)
    \/ \E j \in Jobs : JEnd(j)
    \/ DurationRun
    \/ DurationUi

Next == PlayNext \/ JobNext

\* The whole program.
Spec == Init /\ [][Next]_vars

\* The skip commands alone, on a stopped engine whose track has any duration
\* up to MaxDuration (or none yet) and any position within it.
SkipInit ==
    /\ current_file = AudioFile
    /\ duration \in {Unknown} \cup 0..MaxDuration
    /\ position \in 0..(IF duration = Unknown THEN SkipSeconds ELSE duration)
    /\ last_folder = MusicDir
    /\ config = SavedConfig(current_file, position, last_folder)
    /\ is_playing = FALSE
    /\ scale_to = ScaleTo(duration)
    /\ mixer = MixerIdle
    /\ busy_when_paused \in BOOLEAN
    /\ trk = [k \in Trackers |-> IdleTracker]
    /\ durq = 0
    /\ uiq = FALSE
    /\ cmd = [name |-> "init", from |-> "Stopped", val |-> 0, stale |-> {}]
    /\ is_processing = FALSE
    /\ cancel_processing = FALSE
    /\ job = [j \in Jobs |-> IdleJob]
    /\ ncmd = 0
    /\ seg = SegIdle
    /\ disk = [clips |-> [i \in 0..(BookChunks - 1) |-> 0], outs |-> {}]

SkipNext == SkipForward \/ SkipBackward

SkipSpec == SkipInit /\ [][SkipNext]_vars

\* The playback engine with the track the session starts with.
PlaySpec == Init /\ [][PlayNext]_vars

\* The conversion pipeline with playback left alone (the device, which no
\* conversion step reads, is taken to be pygame 1's).
JobInit == Init /\ busy_when_paused

JobSpec == JobInit /\ [][JobNext]_vars

\* ================================================================ claims
\* The steps of play_audio that write is_playing or position.
TrkWrite(k) == TrkMark(k) \/ TrkAdd(k) \/ TrkExit1(k) \/ TrkExit2(k)

Clamp(x, lo, hi) == Max(lo, Min(x, hi))

\* C1: after a single play() and no other command, every update the tracking
\* loop makes while the engine is Playing leaves position = (the position
\* play() was started at) + (the elapsed time the device reported to that
\* update); play from 0 and 2 s of elapsed time give position 2.
C1_PositionIsStartPlusElapsed ==
    [][\A k \in Trackers :
          (/\ TrkAdd(k)
           /\ ncmd = 1 /\ cmd.name = "play"
           /\ is_playing /\ mixer.state = "playing")
              => position' = mixer.start + trk[k].pos_ms \div 1000]_vars

\* C2: after pause() was issued while Playing and until the next playback
\* command, no step changes position.
C2_PauseKeepsPosition ==
    [][(cmd.name = "pause" /\ cmd' = cmd) => position' = position]_vars

\* C3: after resume() was issued while Paused, until the next playback
\* command and while the device plays, the engine is Playing and a
\* play_audio thread is in, or about to enter, its tracking loop (it has not
\* left the loop and is not leaving it).
C3_ResumeKeepsTracking ==
    (cmd.name = "resume" /\ mixer.state = "playing")
        => /\ is_playing
           /\ \E k \in Trackers : trk[k].pc \in {"mark", "check", "getpos", "add", "sleep"}

\* C4: after seek(x) with x within the duration, with duration known and
\* shown by the Scale, until the next playback command and before the device
\* has played any further, position is clamp(x, 0, duration) and is not
\* negative.
C4_SeekThenRead ==
    (/\ cmd.name = "seek"
     /\ duration # Unknown
     /\ scale_to = duration
     /\ cmd.val <= duration
     /\ (mixer.state = "idle" \/ mixer.elapsed = 0))
        => position = Clamp(cmd.val, 0, duration) /\ position >= 0

\* C5: after an explicit seek, skip or stop and until the next playback
\* command, no write (of the play state on entry, of the position increment,
\* of the play state and the position on exit) of a play_audio thread that
\* had started its stream before the command changes position or is_playing.
C5_StaleLoopWritesNothing ==
    [][\A k \in Trackers :
          (/\ cmd.name \in {"seek", "skip_backward", "skip_forward", "stop"}
           /\ k \in cmd.stale
           /\ TrkWrite(k))
              => position' = position /\ is_playing' = is_playing]_vars

C8_AtMostOneJob == Cardinality({j \in Jobs : Running(j)}) <= 1

\* C9: a conversion, the only one started, that cancel() was issued on while
\* it was converting (no other command was given) ends with the cancelled
\* status and with none of its clip files on disk.
C9_CancelLeavesNothing ==
    \A j \in Jobs :
        (job[j].pc = "end" /\ job[j].cancelled /\ ncmd = 2)
            => /\ job[j].final = "cancelled"
               /\ \A c \in DOMAIN disk.clips : disk.clips[c] # j

\* C10: a conversion of a text that ends with the cancelled status has
\* produced no track: prepare_audio_file returned none to it, and its
\* output is not the session's current file.
C10_CancelledHasNoTrack ==
    \A j \in Jobs :
        (job[j].pc = "end" /\ job[j].final = "cancelled" /\ IsText(job[j].path))
            => job[j].ret = NoFile /\ current_file # OutputMp3(job[j].path)

\* C11: the session is never left processing with no conversion thread alive
\* to end it: while is_processing is True some conversion thread is running
\* (so that, scheduled fairly, it reaches its last line and clears the flag).
C11_ProcessingHasAThread ==
    is_processing => \E j \in Jobs : Running(j)

\* C12: a conversion thread that a failure has ended has published the
\* failed status and has left none of its clip files on disk.
C12_FailureCleansUp ==
    \A j \in Jobs :
        job[j].pc = "dead"
            => /\ job[j].final = "failed"
               /\ \A c \in DOMAIN disk.clips : disk.clips[c] # j

\* C13: a conversion of an empty text is rejected before it runs: no
\* conversion thread is ever running on a text without chunks.
C13_EmptyTextNeverRuns ==
    \A j \in Jobs :
        (IsText(job[j].path) /\ ChunkCount(job[j].path) = 0) => ~Running(j)

\* ------------------------------------------------- smart_chunk_text
\* A text is a sequence of characters. Four characters are enough to tell
\* apart everything smart_chunk_text and str.strip look at: a letter, the
\* full stop, and two kinds of whitespace, one of them the newline.
MaxTextLen == 5
MaxBaseSize == 2
MaxExtra == 3

Chars == {"a", ".", " ", "\n"}
Whitespace == {" ", "\n"}

Texts == UNION {[1..n -> Chars] : n \in 1..MaxTextLen}

\* text[lo:hi] with 0 <= lo <= hi <= len(text)
Slice(text, lo, hi) == SubSeq(text, lo + 1, hi)

\* text.strip()
Strip(text) ==
    LET Kept == {i \in 1..Len(text) : text[i] \notin Whitespace}
    IN  IF Kept = {} THEN <<>>
        ELSE SubSeq(text,
                    CHOOSE i \in Kept : \A k \in Kept : i <= k,
                    CHOOSE i \in Kept : \A k \in Kept : k <= i)

\* text.find(sub, lo, hi): the least index at which sub lies wholly inside
\* text[lo:hi], or -1
Find(text, sub, lo, hi) ==
    LET Hits == {i \in lo..(hi - Len(sub)) : Slice(text, i, i + Len(sub)) = sub}
    IN  IF Hits = {} THEN -1
        ELSE CHOOSE i \in Hits : \A k \in Hits : i <= k

\* A variant of ChunkEnd (below) for comparison: the slice runs on to the next
\* full stop wherever it is.
ChunkEndAnyStop(text, start, base_size, max_extra) ==
    LET end == Min(start + base_size, Len(text))
        full_stop == Find(text, <<".">>, end, Len(text))
    IN  IF end < Len(text)
        THEN IF full_stop # -1 THEN full_stop + 1
             ELSE Min(end + max_extra, Len(text))
        ELSE end

\* The end of the slice that starts at start (the body of the loop up to the
\* append).
ChunkEnd(text, start, base_size, max_extra) ==
    LET end == Min(start + base_size, Len(text))
        extra_end == Min(end + max_extra, Len(text))
        full_stop == Find(text, <<".">>, end, extra_end)
        double_newline == Find(text, <<"\n", "\n">>, end, extra_end)
    IN  IF end < Len(text)
        THEN IF full_stop # -1 /\ (double_newline = -1 \/ full_stop < double_newline)
             THEN full_stop + 1
             ELSE IF double_newline # -1
                  THEN double_newline + 2
                  ELSE extra_end
        ELSE end

\* smart_chunk_text is called: chunks = [], start = 0.
SegCall(text, base_size, max_extra) ==
    [text |-> text, base_size |-> base_size, max_extra |-> max_extra,
     start |-> 0, chunks |-> <<>>, cuts |-> <<0>>, returned |-> FALSE]

\* One turn of the while loop.
SegStep ==
    /\ ~seg.returned
    /\ seg.start < Len(seg.text)
    /\ LET end == ChunkEnd(seg.text, seg.start, seg.base_size, seg.max_extra)
       IN  seg' = [seg EXCEPT !.chunks = Append(@, Strip(Slice(seg.text, seg.start, end))),
                              !.cuts = Append(@, end),
                              !.start = end]
    /\ UNCHANGED <<current_file, duration, position, is_playing, last_folder,
                   config, scale_to, mixer, busy_when_paused, trk, durq, uiq,
                   cmd, is_processing, cancel_processing, job, disk, ncmd>>

\* The loop condition fails: return chunks.
SegReturn ==
    /\ ~seg.returned
    /\ seg.cuts # <<>>
    /\ ~(seg.start < Len(seg.text))
    /\ seg' = [seg EXCEPT !.returned = TRUE]
    /\ UNCHANGED <<current_file, duration, position, is_playing, last_folder,
                   config, scale_to, mixer, busy_when_paused, trk, durq, uiq,
                   cmd, is_processing, cancel_processing, job, disk, ncmd>>

\* The segmenter on its own: one call on any non-empty text of up to
\* MaxTextLen characters, with any base_size >= 1 and max_extra >= 0 up to
\* the bounds.
SegInit ==
    /\ current_file = NoFile
    /\ duration = Unknown
    /\ position = 0
    /\ last_folder = HomeDir
    /\ config = SavedConfig(current_file, position, last_folder)
    /\ is_playing = FALSE
    /\ scale_to = ScaleDefaultTo
    /\ mixer = MixerIdle
    /\ busy_when_paused = TRUE
    /\ trk = [k \in Trackers |-> IdleTracker]
    /\ durq = 0
    /\ uiq = FALSE
    /\ cmd = [name |-> "init", from |-> "Stopped", val |-> 0, stale |-> {}]
    /\ is_processing = FALSE
    /\ cancel_processing = FALSE
    /\ job = [j \in Jobs |-> IdleJob]
    /\ ncmd = 0
    /\ disk = [clips |-> [i \in 0..(BookChunks - 1) |-> 0], outs |-> {}]
    /\ \E text \in Texts, base_size \in 1..MaxBaseSize, max_extra \in 0..MaxExtra :
           seg = SegCall(text, base_size, max_extra)

SegNext == SegStep \/ SegReturn

SegSpec == SegInit /\ [][SegNext]_vars

\* The call followed to its return, the loop taking its turns.
SegFairSpec == SegSpec /\ WF_vars(SegNext)

\* What smart_chunk_text has returned: at least one chunk; the slices it cut
\* run from 0 to len(text), each starting where the one before ended and none
\* empty; none is longer than base_size + max_extra; and chunk i is slice i
\* stripped.
SegResultOk ==
    /\ Len(seg.chunks) >= 1
    /\ Len(seg.cuts) = Len(seg.chunks) + 1
    /\ seg.cuts[1] = 0
    /\ seg.cuts[Len(seg.cuts)] = Len(seg.text)
    /\ \A i \in 1..Len(seg.chunks) :
           /\ seg.cuts[i] < seg.cuts[i + 1]
           /\ seg.cuts[i + 1] - seg.cuts[i] <= seg.base_size + seg.max_extra
           /\ seg.chunks[i] = Strip(Slice(seg.text, seg.cuts[i], seg.cuts[i + 1]))

\* C14: for every non-empty text, base_size >= 1 and max_extra >= 0 the call
\* of smart_chunk_text returns, and what it returns is a non-empty sequence of
\* chunks that are the stripped copies of contiguous, non-overlapping slices
\* covering the text from 0 to its length, none longer than
\* base_size + max_extra.
C14_SegmentsCoverText == <>(seg.returned /\ SegResultOk)

\* C14's case: a returned call that cut the text in three, once after a full
\* stop past base_size, with a chunk that lost whitespace to the strip.
C14_Witness ==
    /\ seg.returned
    /\ Len(seg.chunks) >= 3
    /\ \E i \in 1..Len(seg.chunks) :
           /\ seg.cuts[i + 1] - seg.cuts[i] > seg.base_size
           /\ seg.text[seg.cuts[i + 1]] = "."
    /\ \E i \in 1..Len(seg.chunks) :
           Len(seg.chunks[i]) < seg.cuts[i + 1] - seg.cuts[i]

\* C15: every chunk returned for a stripped non-empty text is non-empty.
C15_NoEmptyChunk ==
    (seg.returned /\ Strip(seg.text) = seg.text)
        => \A i \in 1..Len(seg.chunks) : seg.chunks[i] # <<>>

\* C16: when stop, a seek, a skip, or the end of a selection or download
\* (with a track bound or without one) returns, the saved configuration holds
\* the bound file, the position and the last folder that are in memory.
C16_SavedEqualsMemory ==
    [][(\/ Stop
        \/ \E x \in SeekTargets : Seek(x)
        \/ SkipBackward
        \/ SkipForward
        \/ \E j \in Jobs : JFinish(j))
          => config' = SavedConfig(current_file', position', last_folder')]_vars

\* C17: whenever the duration is known (the length of the bound file has been
\* read) the position lies between 0 and the duration.
C17_PositionWithinDuration ==
    (duration # Unknown /\ duration > 0)
        => (0 <= position /\ position <= duration)

\* C18: the terminal status of a job is the last thing said about it: once a
\* conversion thread has published Completed, Cancelled or Failed, no progress
\* and no "Cancelling..." replaces it in the status bar.
C18_TerminalStatusIsLast ==
    \A j \in Jobs :
        job[j].final # "none" => job[j].note = job[j].final

\* The position-tracking loops that are running: the threads of play_audio
\* that are inside the body of the while loop.
Tracking == {k \in Trackers : trk[k].pc \in {"getpos", "add", "sleep"}}

\* C19: at most one position-tracking loop is running.
C19_OneTrackingLoop == Cardinality(Tracking) <= 1

\* C20: a conversion that cancel() was called on starts no further synthesis:
\* at the head of the chunk loop it goes on to no chunk (the synthesis in
\* flight when cancel() ran is left to finish, and the request is still
\* there when the loop looks).
C20_CancelStopsAtBoundary ==
    [][\A j \in Jobs :
          (job[j].cancelled /\ job[j].pc = "loop") => job'[j].pc # "synth"]_vars

\* C21: zero-duration clips alone do not cost a job its track: a conversion
\* that reaches the export with no cancellation requested leaves it without
\* a track only when the export itself was tried and raised.
C21_EmptyClipsKeepTrack ==
    [][\A j \in Jobs :
          (/\ job[j].pc = "export"
           /\ job'[j].pc = "bind"
           /\ ~cancel_processing
           /\ job'[j].ret = NoFile)
              => ExportWanted(job[j].combined, cancel_processing)]_vars

\* C22: a seek while the engine is Playing or Paused stops the device and
\* starts play() again (a new play_audio thread, which starts the stream at
\* the stored position); a seek while Stopped leaves the device and the
\* threads alone.
C22_SeekRestartsUnlessStopped ==
    [][\A x \in SeekTargets :
          Seek(x) =>
              /\ (is_playing \/ mixer.state = "paused")
                     => (mixer' = MixerIdle /\ trk' = Spawn(trk))
              /\ PlayState = "Stopped"
                     => (mixer' = mixer /\ trk' = trk)]_vars

\* One step of the play_audio thread k.
TrkStep(k) ==
    \/ TrkLoad(k)
    \/ TrkMark(k)
    \/ TrkCheck(k)
    \/ TrkGetPos(k)
    \/ TrkAdd(k)
    \/ TrkExit1(k)
    \/ TrkExit2(k)

\* Playback with play, pause, resume and stop as the only commands.
EndNext ==
    \/ Play
    \/ Pause
    \/ Resume
    \/ Stop
    \/ \E k \in Trackers : TrkStep(k)
    \/ Tick
    \/ DeviceEnd

\* The same with every started play_audio thread running on, time passing and
\* the stream playing to its end.
EndFairSpec ==
    /\ Init
    /\ [][EndNext]_vars
    /\ \A k \in Trackers : WF_vars(TrkStep(k))
    /\ WF_vars(Tick)
    /\ WF_vars(DeviceEnd)

\* C23: when the stream has played out while the engine is Playing, then,
\* unless a command comes in between, the engine becomes Stopped with
\* position 0.
C23_NaturalEndStops ==
    \A n \in 0..MaxCommands :
        (is_playing /\ mixer.state = "idle" /\ ncmd = n)
            ~> ((PlayState = "Stopped" /\ position = 0) \/ ncmd # n)

\* C24: whenever a track is bound and the duration is known, it is the one
\* computed for that track: the length of its audio, or the 0 stored when the
\* length could not be read.
C24_DurationOfBoundTrack ==
    (current_file # NoFile /\ duration # Unknown)
        => duration \in {ComputedDuration(current_file), 0}

====
